---------------------------- MODULE Spec2Model ----------------------------
(***************************************************************************)
(* A model of virtusagtn/GTN.py: the GTN base class (construction,         *)
(* compileoptimizer, train), and the three curriculum variants DataGTN,    *)
(* CurriculumTeacherGTN and RandomTeacherGTN (compile, get_innerloop_data).*)
(*                                                                         *)
(* Tensors are abstracted to what the driver does with them: a learner's   *)
(* parameters are the sequence of inner steps applied to a prototype, an   *)
(* optimizer's state is the number of steps it has taken, a metric         *)
(* accumulator is the number of updates it holds, and a trainable          *)
(* Parameter is an object identity.  Control flow, aliasing, ordering and  *)
(* counting are kept as in the source.                                     *)
(*                                                                         *)
(* Two specifications:                                                     *)
(*   SpecConfig  construction, then any bounded sequence of compile,       *)
(*               compileoptimizer and get_innerloop_data calls, then the   *)
(*               start of train;                                           *)
(*   Spec        one train call on a configured object, statement group by *)
(*               statement group.                                          *)
(***************************************************************************)
EXTENDS Integers, Sequences, FiniteSets, TLC

VARIABLES
    gtn,            \* the GTN object's attributes (self)
    args,           \* size of the curriculum the caller passes to compile
    sample,         \* the last value returned by get_innerloop_data
    calls,          \* number of configuration calls made so far (SpecConfig)
    running,        \* train has begun on the configured object (SpecConfig)
    pc,             \* position inside train
    batches,        \* self._batches
    epochs,         \* self.epochs
    path,           \* self.path
    train_loader,   \* self.train_loader: a cyclic iterator
    test_loader,    \* self.test_loader: a cyclic iterator
    inner_metrics,  \* _inner_metrics
    train_metrics,  \* _train_metrics
    test_metrics,   \* _test_metrics
    df,             \* the result table, one row per finished learner
    it,             \* index of the learner being trained
    epoch,          \* index of the running epoch
    bi,             \* index of the running batch-of-steps in self._batches
    si,             \* number of inner steps of the chunk already run
    learner,        \* _learner: the persistent learner's parameters
    learner_mode,   \* _learner.training: "train" or "eval"
    inner_optim,    \* _inner_optim: the persistent inner optimizer's state
    info,           \* _info: metric name -> list of recorded values
    live,           \* number of functional contexts currently open
    flearner,       \* _flearner: the functional learner's parameters
    diffopt,        \* _diffopt: the functional optimizer's state
    drawn,          \* (_train_data, _test_data) of the running batch
    losses,         \* (_inner_loss, _train_loss, _test_loss)
    outer,          \* outer optimizer: gradients and steps taken
    saved,          \* the persistence sink: path -> checkpoint
    trace,          \* phases the running batch-of-steps has gone through
    nbatch          \* batches-of-steps started in this train call

cfgvars   == <<gtn, args, sample, calls, running>>
trainvars == <<pc, batches, epochs, path, train_loader, test_loader,
               inner_metrics, train_metrics, test_metrics, df, it, epoch,
               bi, si, learner, learner_mode, inner_optim, info, live,
               flearner, diffopt, drawn, losses, outer, saved, trace, nbatch>>
vars      == <<cfgvars, trainvars>>

(***************************************************************************)
(* Bounds of the model.                                                    *)
(***************************************************************************)
MaxLearners   == 2   \* len(learnerlist) ranges over 1..MaxLearners
MaxEpochs     == 2   \* epochs ranges over 1..MaxEpochs
MaxIters      == 4   \* inner_loop_iterations ranges over 0..MaxIters
MaxBatch      == 2   \* batch_size ranges over 1..MaxBatch
MaxLoader     == 2   \* len(train_loader), len(test_loader) in 1..MaxLoader
MaxClasses    == 3   \* num_classes ranges over 1..MaxClasses
MaxInnerBatch == 4   \* inner_batch_size ranges over 1..MaxInnerBatch
MaxCalls      == 4   \* configuration calls before train

(***************************************************************************)
(* Program constants.                                                      *)
(***************************************************************************)
DefaultPlotSteps == 25        \* __init__: plot_steps: int = 25

Min(a, b) == IF a <= b THEN a ELSE b

Range(s) == {s[i] : i \in DOMAIN s}

\* numpy.arange(n) / torch.arange(n): <<0, 1, ..., n-1>>
Arange(n) == [i \in 1..n |-> i - 1]

(***************************************************************************)
(* utils._divide_chunks(l, n): yields l[i:i+n] for i in range(0, len(l), n)*)
(***************************************************************************)
RECURSIVE ChunksFrom(_, _, _)
ChunksFrom(l, n, i) ==
    IF i >= Len(l) THEN <<>>
    ELSE <<SubSeq(l, i + 1, Min(i + n, Len(l)))>> \o ChunksFrom(l, n, i + n)

divide_chunks(l, n) == ChunksFrom(l, n, 0)

(***************************************************************************)
(* utils._cycle(iterable): yields the elements of the iterable in order    *)
(* and starts over when it is exhausted.  An iterator over it is the       *)
(* underlying sequence and the 0-based position of the next element.       *)
(***************************************************************************)
cycle(iterable) == [items |-> iterable, pos |-> 0]

CycleValue(c) == c.items[c.pos + 1]

CycleNext(c) == [c EXCEPT !.pos = (c.pos + 1) % Len(c.items)]

(***************************************************************************)
(* Object identities of trainable tensors.  A Parameter made by the        *)
(* program gets a fresh serial; a tensor or module handed in by the caller *)
(* keeps the identity the caller gave it (serial 0).                       *)
(***************************************************************************)
Param(kind, name, serial) == [kind |-> kind, name |-> name, serial |-> serial]

\* teacher.parameters(): the weights of the teacher module the caller passed
TeacherParameters(teacher) == <<Param("teacher", teacher, 0)>>

Teachers == {"teacherA", "teacherB"}
Noises   == {"noiseX", "noiseY"}
Variants == {"DataGTN", "CurriculumTeacherGTN", "RandomTeacherGTN"}

\* torchmetrics object: a MetricCollection or a bare Metric, and the number
\* of update() calls it holds since construction or its last reset()
Metrics(collection) == [collection |-> collection, updates |-> 0]

(***************************************************************************)
(* GTN.__init__.  Lines 55-56 wrap a bare Metric into a MetricCollection;  *)
(* line 57 then assigns the caller's object again.                         *)
(***************************************************************************)
GTN__init__(variant, learners, metrics, num_classes, batch_size, plot_steps) ==
    LET m1 == metrics
        m2 == IF ~m1.collection THEN [m1 EXCEPT !.collection = TRUE] ELSE m1
        m3 == metrics
    IN  [ variant               |-> variant,
          learnerlist           |-> learners,
          num_classes           |-> num_classes,
          plot_steps            |-> plot_steps,
          batch_size            |-> batch_size,
          metrics               |-> m3,
          compiled              |-> FALSE,   \* params_to_train is set
          optimized             |-> FALSE,   \* outer_optim is set
          params_to_train       |-> <<>>,
          override              |-> <<>>,    \* self._override
          override_params       |-> <<>>,    \* keys of self.override_params
          outer_optim           |-> <<>>,    \* parameters the optimizer owns
          inner_loop_iterations |-> 0,
          inner_batch_size      |-> 0,
          curriculum_data       |-> <<>>,
          curriculum_labels     |-> <<>>,
          teacher               |-> <<>>,
          teacher_noise         |-> <<>>,
          teacher_labels        |-> <<>>,
          one_hot               |-> <<>>,
          serial                |-> 0 ]      \* Parameters created so far

\* torch.nn.functional.one_hot(labels, num_classes)
OneHot(labels, num_classes) ==
    [i \in DOMAIN labels |->
        [c \in 1..num_classes |-> IF labels[i] = c - 1 THEN 1 ELSE 0]]

\* TeacherLabels, had the modulus been inner_batch_size
TeacherLabels_noCycle(inner_batch_size, num_classes) ==
    [i \in 1..inner_batch_size |-> Arange(inner_batch_size)[i] % inner_batch_size]

\* torch.arange(inner_batch_size) % num_classes
TeacherLabels(inner_batch_size, num_classes) ==
    [i \in 1..inner_batch_size |-> Arange(inner_batch_size)[i] % num_classes]

(***************************************************************************)
(* DataGTN.compile(curriculum_loader).  curriculum_loader is the sequence  *)
(* of labels of its (data, label) pairs; the stacked data becomes one new  *)
(* Parameter.                                                              *)
(***************************************************************************)
DataGTN_compile(self, curriculum_loader) ==
    LET n    == Len(curriculum_loader)
        c    == cycle(curriculum_loader)
        data == Param("curriculum_data", "stack", self.serial + 1)
    IN  [self EXCEPT
            !.compiled              = TRUE,
            !.inner_loop_iterations = n,
            !.curriculum_data       = <<data>>,
            !.curriculum_labels     = [i \in 1..n |-> c.items[((i - 1) % n) + 1]],
            !.params_to_train       = <<>> \o <<data>>,
            !.serial                = self.serial + 1]

(***************************************************************************)
(* CurriculumTeacherGTN.compile(teacher, teacher_noise).  teacher_noise is *)
(* [name, shape0, shape1]: the caller's tensor and its first two dims.     *)
(***************************************************************************)
CurriculumTeacherGTN_compile(self, teacher, teacher_noise) ==
    LET labels == TeacherLabels(teacher_noise.shape1, self.num_classes)
    IN  [self EXCEPT
            !.compiled              = TRUE,
            !.teacher               = TeacherParameters(teacher),
            !.teacher_noise         = <<Param("noise", teacher_noise.name, 0)>>,
            !.inner_batch_size      = teacher_noise.shape1,
            !.inner_loop_iterations = teacher_noise.shape0,
            !.params_to_train       = (<<>> \o TeacherParameters(teacher))
                                        \o <<Param("noise", teacher_noise.name, 0)>>,
            !.teacher_labels        = labels,
            !.one_hot               = OneHot(labels, self.num_classes)]

(***************************************************************************)
(* RandomTeacherGTN.compile(teacher, inner_loop_iterations, noise_size,    *)
(* inner_batch_size).  The noise is drawn in get_innerloop_data.           *)
(***************************************************************************)
RandomTeacherGTN_compile(self, teacher, inner_loop_iterations, inner_batch_size) ==
    LET labels == TeacherLabels(inner_batch_size, self.num_classes)
    IN  [self EXCEPT
            !.compiled              = TRUE,
            !.inner_batch_size      = inner_batch_size,
            !.inner_loop_iterations = inner_loop_iterations,
            !.teacher               = TeacherParameters(teacher),
            !.params_to_train       = <<>> \o TeacherParameters(teacher),
            !.teacher_labels        = labels,
            !.one_hot               = OneHot(labels, self.num_classes)]

(***************************************************************************)
(* GTN.compileoptimizer(...).  override_params is the sequence of the      *)
(* overridden hyperparameter names; each value becomes a new Parameter.    *)
(* params_to_train is extended in place, and the outer optimizer is built  *)
(* over a copy of it.                                                      *)
(***************************************************************************)
compileoptimizer(self, override_params) ==
    LET ov == [i \in DOMAIN override_params |->
                  Param("override", override_params[i], self.serial + i)]
    IN  [self EXCEPT
            !.optimized       = TRUE,
            !.override_params = override_params,
            !.override        = ov,
            !.params_to_train = self.params_to_train \o ov,
            !.outer_optim     = self.params_to_train \o ov,
            !.serial          = self.serial + Len(override_params)]

(***************************************************************************)
(* get_innerloop_data(step) of the three variants.  noise is the value     *)
(* torch.randn returns in the RandomTeacherGTN call.  The result is        *)
(* [data, labels]; data names the tensors the value is computed from.      *)
(***************************************************************************)
DataGTN_get_innerloop_data(self, step) ==
    [data   |-> [reads |-> Range(self.curriculum_data), step |-> step, noise |-> 0],
     labels |-> <<self.curriculum_labels[step + 1]>>]

CurriculumTeacherGTN_get_innerloop_data(self, step) ==
    [data   |-> [reads |-> Range(self.teacher) \cup Range(self.teacher_noise),
                 step |-> step, noise |-> 0],
     labels |-> self.teacher_labels]

RandomTeacherGTN_get_innerloop_data(self, step, noise) ==
    [data   |-> [reads |-> Range(self.teacher), step |-> -1, noise |-> noise],
     labels |-> self.teacher_labels]

\* the trainable tensors the variant's get_innerloop_data computes from
InnerloopReads(self) ==
    CASE self.variant = "DataGTN" -> Range(self.curriculum_data)
      [] self.variant = "CurriculumTeacherGTN" ->
            Range(self.teacher) \cup Range(self.teacher_noise)
      [] self.variant = "RandomTeacherGTN" -> Range(self.teacher)

get_innerloop_data(self, step, noise) ==
    CASE self.variant = "DataGTN" -> DataGTN_get_innerloop_data(self, step)
      [] self.variant = "CurriculumTeacherGTN" ->
            CurriculumTeacherGTN_get_innerloop_data(self, step)
      [] self.variant = "RandomTeacherGTN" ->
            RandomTeacherGTN_get_innerloop_data(self, step, noise)

\* values torch.randn may return (two are enough to tell draws apart)
RandnValues == {1, 2}


(***************************************************************************)
(* The state while no train call is running.                               *)
(***************************************************************************)
NoLoss == [src |-> -1, step |-> -1, params |-> <<>>]

Idle ==
    /\ pc = "idle"
    /\ batches = <<>>
    /\ epochs = 0
    /\ path = ""
    /\ train_loader = cycle(<<>>)
    /\ test_loader = cycle(<<>>)
    /\ inner_metrics = Metrics(TRUE)
    /\ train_metrics = Metrics(TRUE)
    /\ test_metrics = Metrics(TRUE)
    /\ df = <<>>
    /\ it = -1
    /\ epoch = 0
    /\ bi = 0
    /\ si = 0
    /\ learner = [proto |-> -1, steps |-> <<>>]
    /\ learner_mode = "train"
    /\ inner_optim = [steps |-> 0]
    /\ info = <<>>
    /\ live = 0
    /\ flearner = [proto |-> -1, steps |-> <<>>]
    /\ diffopt = [steps |-> 0]
    /\ drawn = [train |-> -1, test |-> -1]
    /\ losses = [inner |-> NoLoss, train |-> NoLoss, test |-> NoLoss]
    /\ outer = [grads |-> "none", steps |-> 0]
    /\ saved = {}
    /\ trace = <<>>
    /\ nbatch = 0

(***************************************************************************)
(* SpecConfig: the object after construction, and the configuration calls. *)
(***************************************************************************)
\* a curriculum loader of n (data, label) pairs, given by its labels
CurriculumLoader(n, num_classes) == [i \in 1..n |-> (i - 1) % num_classes]

OverrideChoices == {<<"lr">>, <<"lr", "momentum">>}

\* args: the caller's loader has args.n pairs; its noise tensors have shape
\* (args.n, args.b, ...); it asks RandomTeacherGTN for args.n iterations of
\* inner batches of args.b
InitConfig ==
    /\ \E variant \in Variants, num_classes \in 1..MaxClasses :
          gtn = GTN__init__(variant, 1, Metrics(TRUE), num_classes,
                            1, DefaultPlotSteps)
    /\ args \in [n : 0..MaxIters, b : 1..MaxInnerBatch]
    /\ sample = <<>>
    /\ calls = 0
    /\ running = FALSE
    /\ Idle

\* DataGTN.compile: torch.stack needs at least one sample
CallDataCompile ==
    /\ ~running /\ calls < MaxCalls
    /\ gtn.variant = "DataGTN"
    /\ args.n >= 1
    /\ gtn' = DataGTN_compile(gtn, CurriculumLoader(args.n, gtn.num_classes))
    /\ calls' = calls + 1
    /\ UNCHANGED <<args, sample, running, trainvars>>

CallCurriculumTeacherCompile ==
    /\ ~running /\ calls < MaxCalls
    /\ gtn.variant = "CurriculumTeacherGTN"
    /\ \E teacher \in Teachers, name \in Noises :
          gtn' = CurriculumTeacherGTN_compile(gtn, teacher,
                    [name |-> name, shape0 |-> args.n, shape1 |-> args.b])
    /\ calls' = calls + 1
    /\ UNCHANGED <<args, sample, running, trainvars>>

CallRandomTeacherCompile ==
    /\ ~running /\ calls < MaxCalls
    /\ gtn.variant = "RandomTeacherGTN"
    /\ \E teacher \in Teachers :
          gtn' = RandomTeacherGTN_compile(gtn, teacher, args.n, args.b)
    /\ calls' = calls + 1
    /\ UNCHANGED <<args, sample, running, trainvars>>

\* params_to_train must exist: compile comes before the first compileoptimizer
CallCompileOptimizer ==
    /\ ~running /\ calls < MaxCalls
    /\ gtn.compiled
    /\ \E override_params \in OverrideChoices :
          gtn' = compileoptimizer(gtn, override_params)
    /\ calls' = calls + 1
    /\ UNCHANGED <<args, sample, running, trainvars>>

CallGetInnerloopData ==
    /\ ~running
    /\ gtn.compiled
    /\ \E step \in 0..(gtn.inner_loop_iterations - 1),
          noise \in (IF gtn.variant = "RandomTeacherGTN" THEN RandnValues ELSE {0}) :
          sample' = <<get_innerloop_data(gtn, step, noise)>>
    /\ UNCHANGED <<gtn, args, calls, running, trainvars>>

\* train is entered: from here on it uses self.outer_optim, self._override
\* and get_innerloop_data as they are now
CallTrain ==
    /\ ~running
    /\ gtn.compiled /\ gtn.optimized
    /\ running' = TRUE
    /\ UNCHANGED <<gtn, args, sample, calls, trainvars>>

NextConfig ==
    \/ CallDataCompile
    \/ CallCurriculumTeacherCompile
    \/ CallRandomTeacherCompile
    \/ CallCompileOptimizer
    \/ CallGetInnerloopData
    \/ CallTrain

SpecConfig == InitConfig /\ [][NextConfig]_vars

(***************************************************************************)
(* Spec: one call of GTN.train on a configured object.                     *)
(***************************************************************************)
\* the metrics of the collection: one, named "Accuracy"
MetricNames == {"Accuracy"}

\* _modify_metric(_kind, _metric): prefixes every name with the phase;
\* the value of a metric is abstracted to the number of updates it reflects
modify_metric(kind, metric) ==
    [key \in {kind \o name : name \in MetricNames} |-> metric.updates]

\* metric.update(output, labels) in train_on_batch
MetricUpdate(metric) == [metric EXCEPT !.updates = @ + 1]

\* metric.reset()
MetricReset(metric) == [metric EXCEPT !.updates = 0]

\* _info[key].append(value) on a defaultdict(list).  The entry keeps, beside
\* the value, the learner and the batch-of-steps it was recorded in.
InfoAppend(d, key, entry) ==
    IF key \in DOMAIN d THEN [d EXCEPT ![key] = Append(@, entry)]
    ELSE d @@ (key :> <<entry>>)

Entry(value) == [it |-> it, batch |-> epoch * Len(batches) + bi, value |-> value]

RECURSIVE InfoAppendAll(_, _, _)
InfoAppendAll(d, m, keys) ==
    IF keys = {} THEN d
    ELSE LET k == CHOOSE x \in keys : TRUE
         IN  InfoAppendAll(InfoAppend(d, k, Entry(m[k])), m, keys \ {k})

\* str(n) of a non-negative integer, as its decimal digits
Digit(d) == CASE d = 0 -> "0" [] d = 1 -> "1" [] d = 2 -> "2" [] d = 3 -> "3"
              [] d = 4 -> "4" [] d = 5 -> "5" [] d = 6 -> "6" [] d = 7 -> "7"
              [] d = 8 -> "8" [] d = 9 -> "9"

RECURSIVE Str(_)
Str(n) == IF n < 10 THEN Digit(n) ELSE Str(n \div 10) \o Digit(n % 10)

\* CheckpointPath, had the name left the learner's index out
CheckpointPath_noIndex(dir, i) == dir \o "/" \o "model" \o ".pth"

\* f'{self.path}/{it}.pth'
CheckpointPath(dir, i) == dir \o "/" \o Str(i) \o ".pth"

\* utils._diffopt_state_dict(diffopt): the functional optimizer's state in the
\* form torch.optim.Optimizer.load_state_dict takes
diffopt_state_dict(d) == [steps |-> d.steps]

Phase(name, step) == [ph |-> name, step |-> step]

\* the chunk of step indices of the running batch-of-steps
Batchset == batches[bi + 1]

\* a configured object: the variant's compile, then compileoptimizer
Configured(variant, learners, collection, n, batch_size) ==
    LET self == GTN__init__(variant, learners, Metrics(collection), MaxClasses,
                            batch_size, DefaultPlotSteps)
        c == CASE variant = "DataGTN" ->
                    DataGTN_compile(self, CurriculumLoader(n, MaxClasses))
               [] variant = "CurriculumTeacherGTN" ->
                    CurriculumTeacherGTN_compile(self, "teacherA",
                        [name |-> "noiseX", shape0 |-> n, shape1 |-> MaxInnerBatch])
               [] variant = "RandomTeacherGTN" ->
                    RandomTeacherGTN_compile(self, "teacherA", n, MaxInnerBatch)
    IN  compileoptimizer(c, <<"lr", "momentum">>)

Init ==
    /\ \E variant \in Variants, learners \in 1..MaxLearners, collection \in BOOLEAN,
          n \in 0..MaxIters, batch_size \in 1..MaxBatch :
          /\ variant = "DataGTN" => n >= 1
          /\ gtn = Configured(variant, learners, collection, n, batch_size)
    /\ args = [n |-> gtn.inner_loop_iterations, b |-> gtn.inner_batch_size]
    /\ sample = <<>>
    /\ calls = 0
    /\ running = FALSE
    /\ Idle

\* TrainBatches, had the range been one short
TrainBatches_short(self) ==
    divide_chunks(Arange(self.inner_loop_iterations - 1), self.batch_size)

\* line 99
TrainBatches(self) ==
    divide_chunks(Arange(self.inner_loop_iterations), self.batch_size)

\* lines 99-116
TrainStart ==
    /\ pc = "idle"
    /\ gtn.compiled /\ gtn.optimized
    /\ \E e \in 1..MaxEpochs, ltrain \in 1..MaxLoader, ltest \in 1..MaxLoader :
          /\ epochs' = e
          /\ train_loader' = cycle(Arange(ltrain))
          /\ test_loader' = cycle(Arange(ltest))
    /\ batches' = TrainBatches(gtn)
    /\ path' = "./gtn"
    /\ inner_metrics' = gtn.metrics
    /\ train_metrics' = gtn.metrics
    /\ test_metrics' = gtn.metrics
    /\ df' = <<>>
    /\ running' = TRUE
    /\ pc' = "for_learner"
    /\ UNCHANGED <<gtn, args, sample, calls, it, epoch, bi, si, learner, learner_mode,
                   inner_optim, info, live, flearner, diffopt, drawn, losses,
                   outer, saved, trace, nbatch>>

\* LearnerSetup, had lines 105-106 been placed inside the learner loop
LearnerSetup_restartsLoaders ==
    /\ pc = "for_learner"
    /\ it + 1 < gtn.learnerlist
    /\ it' = it + 1
    /\ learner' = [proto |-> it + 1, steps |-> <<>>]
    /\ learner_mode' = "train"
    /\ inner_optim' = [steps |-> 0]
    /\ info' = <<>>
    /\ epoch' = 0
    /\ pc' = "for_epoch"
    /\ train_loader' = cycle(train_loader.items)
    /\ test_loader' = cycle(test_loader.items)
    /\ UNCHANGED <<cfgvars, batches, epochs, path,
                   inner_metrics, train_metrics, test_metrics, df, bi, si, live,
                   flearner, diffopt, drawn, losses, outer, saved, trace, nbatch>>

\* lines 117-120: the next learner of the population is cloned
LearnerSetup ==
    /\ pc = "for_learner"
    /\ it + 1 < gtn.learnerlist
    /\ it' = it + 1
    /\ learner' = [proto |-> it + 1, steps |-> <<>>]
    /\ learner_mode' = "train"
    /\ inner_optim' = [steps |-> 0]
    /\ info' = <<>>
    /\ epoch' = 0
    /\ pc' = "for_epoch"
    /\ UNCHANGED <<cfgvars, batches, epochs, path, train_loader, test_loader,
                   inner_metrics, train_metrics, test_metrics, df, bi, si, live,
                   flearner, diffopt, drawn, losses, outer, saved, trace, nbatch>>

\* line 122: the next epoch begins
EpochBegin ==
    /\ pc = "for_epoch"
    /\ epoch < epochs
    /\ bi' = 0
    /\ pc' = "for_batch"
    /\ UNCHANGED <<cfgvars, batches, epochs, path, train_loader, test_loader,
                   inner_metrics, train_metrics, test_metrics, df, it, epoch, si,
                   learner, learner_mode, inner_optim, info, live, flearner,
                   diffopt, drawn, losses, outer, saved, trace, nbatch>>

\* lines 123-124: the next batch-of-steps begins
ZeroGrad ==
    /\ pc = "for_batch"
    /\ bi < Len(batches)
    /\ outer' = [outer EXCEPT !.grads = "none"]
    /\ trace' = <<Phase("zero_grad", -1)>>
    /\ nbatch' = nbatch + 1
    /\ pc' = "draw"
    /\ UNCHANGED <<cfgvars, batches, epochs, path, train_loader, test_loader,
                   inner_metrics, train_metrics, test_metrics, df, it, epoch, bi,
                   si, learner, learner_mode, inner_optim, info, live, flearner,
                   diffopt, drawn, losses, saved>>

\* lines 125-126
DrawData ==
    /\ pc = "draw"
    /\ drawn' = [train |-> CycleValue(train_loader), test |-> CycleValue(test_loader)]
    /\ train_loader' = CycleNext(train_loader)
    /\ test_loader' = CycleNext(test_loader)
    /\ trace' = Append(trace, Phase("draw", -1))
    /\ pc' = "ctx_enter"
    /\ UNCHANGED <<cfgvars, batches, epochs, path, inner_metrics, train_metrics,
                   test_metrics, df, it, epoch, bi, si, learner, learner_mode,
                   inner_optim, info, live, flearner, diffopt, losses, outer,
                   saved, nbatch>>

\* lines 128-132: higher.innerloop_ctx copies the learner's weights and the
\* optimizer's state into a functional learner and a differentiable optimizer
CtxEnter ==
    /\ pc = "ctx_enter"
    /\ live' = live + 1
    /\ flearner' = learner
    /\ diffopt' = [steps |-> inner_optim.steps]
    /\ si' = 0
    /\ trace' = Append(trace, Phase("enter", -1))
    /\ pc' = "inner"
    /\ UNCHANGED <<cfgvars, batches, epochs, path, train_loader, test_loader,
                   inner_metrics, train_metrics, test_metrics, df, it, epoch, bi,
                   learner, learner_mode, inner_optim, info, drawn, losses, outer,
                   saved, nbatch>>

\* InnerStep, had line 137 stepped _inner_optim instead of _diffopt
InnerStep_persistentOptimizer ==
    /\ pc = "inner"
    /\ si < Len(Batchset)
    /\ LET step == Batchset[si + 1]
       IN  /\ \E noise \in (IF gtn.variant = "RandomTeacherGTN" THEN RandnValues ELSE {0}) :
                 sample' = <<get_innerloop_data(gtn, step, noise)>>
           /\ inner_metrics' = MetricUpdate(inner_metrics)
           /\ losses' = [losses EXCEPT !.inner =
                            [src |-> -1, step |-> step, params |-> flearner.steps]]
           /\ flearner' = [flearner EXCEPT !.steps = Append(@, step)]
           /\ inner_optim' = [inner_optim EXCEPT !.steps = @ + 1]
           /\ trace' = Append(trace, Phase("inner", step))
    /\ si' = si + 1
    /\ UNCHANGED <<gtn, args, calls, running, pc, batches, epochs, path, train_loader,
                   test_loader, train_metrics, test_metrics, df, it, epoch, bi,
                   learner, learner_mode, diffopt, info, live, drawn, outer,
                   saved, nbatch>>

\* lines 134-137: one inner step of the chunk
InnerStep ==
    /\ pc = "inner"
    /\ si < Len(Batchset)
    /\ LET step == Batchset[si + 1]
       IN  /\ \E noise \in (IF gtn.variant = "RandomTeacherGTN" THEN RandnValues ELSE {0}) :
                 sample' = <<get_innerloop_data(gtn, step, noise)>>
           /\ inner_metrics' = MetricUpdate(inner_metrics)
           /\ losses' = [losses EXCEPT !.inner =
                            [src |-> -1, step |-> step, params |-> flearner.steps]]
           /\ flearner' = [flearner EXCEPT !.steps = Append(@, step)]
           /\ diffopt' = [diffopt EXCEPT !.steps = @ + 1]
           /\ trace' = Append(trace, Phase("inner", step))
    /\ si' = si + 1
    /\ UNCHANGED <<gtn, args, calls, running, pc, batches, epochs, path, train_loader,
                   test_loader, train_metrics, test_metrics, df, it, epoch, bi,
                   learner, learner_mode, inner_optim, info, live, drawn, outer,
                   saved, nbatch>>

\* OuterLoss, had line 140 been left out
OuterLoss_noBackward ==
    /\ pc = "inner"
    /\ si = Len(Batchset)
    /\ train_metrics' = MetricUpdate(train_metrics)
    /\ losses' = [losses EXCEPT !.train =
                     [src |-> drawn.train, step |-> -1, params |-> flearner.steps]]
    /\ trace' = Append(trace, Phase("outer_loss", -1))
    /\ pc' = "outer_step"
    /\ UNCHANGED <<cfgvars, batches, epochs, path, train_loader, test_loader,
                   inner_metrics, test_metrics, df, it, epoch, bi, si, learner,
                   learner_mode, inner_optim, info, live, flearner, diffopt, drawn,
                   outer, saved, nbatch>>

\* line 139: the outer loss on the functional learner
OuterLoss ==
    /\ pc = "inner"
    /\ si = Len(Batchset)
    /\ train_metrics' = MetricUpdate(train_metrics)
    /\ losses' = [losses EXCEPT !.train =
                     [src |-> drawn.train, step |-> -1, params |-> flearner.steps]]
    /\ trace' = Append(trace, Phase("outer_loss", -1))
    /\ pc' = "backward"
    /\ UNCHANGED <<cfgvars, batches, epochs, path, train_loader, test_loader,
                   inner_metrics, test_metrics, df, it, epoch, bi, si, learner,
                   learner_mode, inner_optim, info, live, flearner, diffopt, drawn,
                   outer, saved, nbatch>>

\* line 140
Backward ==
    /\ pc = "backward"
    /\ outer' = [outer EXCEPT !.grads = "set"]
    /\ trace' = Append(trace, Phase("backward", -1))
    /\ pc' = "outer_step"
    /\ UNCHANGED <<cfgvars, batches, epochs, path, train_loader, test_loader,
                   inner_metrics, train_metrics, test_metrics, df, it, epoch, bi,
                   si, learner, learner_mode, inner_optim, info, live, flearner,
                   diffopt, drawn, losses, saved, nbatch>>

\* line 141
OuterStep ==
    /\ pc = "outer_step"
    /\ outer' = [outer EXCEPT !.steps = @ + 1]
    /\ trace' = Append(trace, Phase("outer_step", -1))
    /\ pc' = "sync_learner"
    /\ UNCHANGED <<cfgvars, batches, epochs, path, train_loader, test_loader,
                   inner_metrics, train_metrics, test_metrics, df, it, epoch, bi,
                   si, learner, learner_mode, inner_optim, info, live, flearner,
                   diffopt, drawn, losses, saved, nbatch>>

\* LearnerLoaded, had line 143 loaded _learner.state_dict()
LearnerLoaded_own(persistent, functional) == persistent

\* line 143: _learner.load_state_dict(_flearner.state_dict())
LearnerLoaded(persistent, functional) == functional

\* line 143
SyncLearner ==
    /\ pc = "sync_learner"
    /\ learner' = LearnerLoaded(learner, flearner)
    /\ trace' = Append(trace, Phase("sync_learner", -1))
    /\ pc' = "sync_optim"
    /\ UNCHANGED <<cfgvars, batches, epochs, path, train_loader, test_loader,
                   inner_metrics, train_metrics, test_metrics, df, it, epoch, bi,
                   si, learner_mode, inner_optim, info, live, flearner, diffopt,
                   drawn, losses, outer, saved, nbatch>>

\* line 144
SyncOptim ==
    /\ pc = "sync_optim"
    /\ inner_optim' = diffopt_state_dict(diffopt)
    /\ trace' = Append(trace, Phase("sync_optim", -1))
    /\ pc' = "ctx_exit"
    /\ UNCHANGED <<cfgvars, batches, epochs, path, train_loader, test_loader,
                   inner_metrics, train_metrics, test_metrics, df, it, epoch, bi,
                   si, learner, learner_mode, info, live, flearner, diffopt, drawn,
                   losses, outer, saved, nbatch>>

\* the with block of lines 128-144 is left
CtxExit ==
    /\ pc = "ctx_exit"
    /\ live' = live - 1
    /\ trace' = Append(trace, Phase("exit", -1))
    /\ pc' = "test"
    /\ UNCHANGED <<cfgvars, batches, epochs, path, train_loader, test_loader,
                   inner_metrics, train_metrics, test_metrics, df, it, epoch, bi,
                   si, learner, learner_mode, inner_optim, info, flearner, diffopt,
                   drawn, losses, outer, saved, nbatch>>

\* lines 146-148
TestEval ==
    /\ pc = "test"
    /\ learner_mode' = "eval"
    /\ test_metrics' = MetricUpdate(test_metrics)
    /\ losses' = [losses EXCEPT !.test =
                     [src |-> drawn.test, step |-> -1, params |-> learner.steps]]
    /\ trace' = Append(trace, Phase("test", -1))
    /\ pc' = "record"
    /\ UNCHANGED <<cfgvars, batches, epochs, path, train_loader, test_loader,
                   inner_metrics, train_metrics, df, it, epoch, bi, si, learner,
                   inner_optim, info, live, flearner, diffopt, drawn, outer, saved,
                   nbatch>>

\* Record, had line 158 appended _innermetrics[m]
Record_copyPaste ==
    /\ pc = "record"
    /\ inner_metrics.collection
    /\ LET im == modify_metric("Inner", inner_metrics)
           tm == modify_metric("Train", train_metrics)
           sm == modify_metric("Test", test_metrics)
           i1 == InfoAppendAll(info, im, DOMAIN im)
           i2 == InfoAppend(i1, "InnerLoss", Entry(losses.inner))
           i3 == InfoAppendAll(i2, im, DOMAIN im)
           i4 == InfoAppend(i3, "TrainLoss", Entry(losses.train))
           i5 == InfoAppendAll(i4, sm, DOMAIN sm)
           i6 == InfoAppend(i5, "TestLoss", Entry(losses.test))
       IN  info' = i6
    /\ trace' = Append(trace, Phase("record", -1))
    /\ pc' = "reset"
    /\ UNCHANGED <<cfgvars, batches, epochs, path, train_loader, test_loader,
                   inner_metrics, train_metrics, test_metrics, df, it, epoch, bi,
                   si, learner, learner_mode, inner_optim, live, flearner, diffopt,
                   drawn, losses, outer, saved, nbatch>>

\* lines 150-162, the metrics being a MetricCollection
Record ==
    /\ pc = "record"
    /\ inner_metrics.collection
    /\ LET im == modify_metric("Inner", inner_metrics)
           tm == modify_metric("Train", train_metrics)
           sm == modify_metric("Test", test_metrics)
           i1 == InfoAppendAll(info, im, DOMAIN im)
           i2 == InfoAppend(i1, "InnerLoss", Entry(losses.inner))
           i3 == InfoAppendAll(i2, tm, DOMAIN tm)
           i4 == InfoAppend(i3, "TrainLoss", Entry(losses.train))
           i5 == InfoAppendAll(i4, sm, DOMAIN sm)
           i6 == InfoAppend(i5, "TestLoss", Entry(losses.test))
       IN  info' = i6
    /\ trace' = Append(trace, Phase("record", -1))
    /\ pc' = "reset"
    /\ UNCHANGED <<cfgvars, batches, epochs, path, train_loader, test_loader,
                   inner_metrics, train_metrics, test_metrics, df, it, epoch, bi,
                   si, learner, learner_mode, inner_optim, live, flearner, diffopt,
                   drawn, losses, outer, saved, nbatch>>

\* line 150, the metrics being a bare Metric: compute() returns a tensor, and
\* _modify_metric's _metric.items() raises AttributeError
RecordRaises ==
    /\ pc = "record"
    /\ ~inner_metrics.collection
    /\ pc' = "raised"
    /\ UNCHANGED <<cfgvars, batches, epochs, path, train_loader, test_loader,
                   inner_metrics, train_metrics, test_metrics, df, it, epoch, bi,
                   si, learner, learner_mode, inner_optim, info, live, flearner,
                   diffopt, drawn, losses, outer, saved, trace, nbatch>>

\* Reset, had line 165 been left out
Reset_keepsTest ==
    /\ pc = "reset"
    /\ inner_metrics' = MetricReset(inner_metrics)
    /\ train_metrics' = MetricReset(train_metrics)
    /\ test_metrics' = test_metrics
    /\ bi' = bi + 1
    /\ pc' = "for_batch"
    /\ UNCHANGED <<cfgvars, batches, epochs, path, train_loader, test_loader, df,
                   it, epoch, si, learner, learner_mode, inner_optim, info, live,
                   flearner, diffopt, drawn, losses, outer, saved, trace, nbatch>>

\* lines 163-165, and the batch loop moves on
Reset ==
    /\ pc = "reset"
    /\ inner_metrics' = MetricReset(inner_metrics)
    /\ train_metrics' = MetricReset(train_metrics)
    /\ test_metrics' = MetricReset(test_metrics)
    /\ bi' = bi + 1
    /\ pc' = "for_batch"
    /\ UNCHANGED <<cfgvars, batches, epochs, path, train_loader, test_loader, df,
                   it, epoch, si, learner, learner_mode, inner_optim, info, live,
                   flearner, diffopt, drawn, losses, outer, saved, trace, nbatch>>

\* lines 167-171: the epoch's batches are done; the print changes nothing
EpochEnd ==
    /\ pc = "for_batch"
    /\ bi >= Len(batches)
    /\ epoch' = epoch + 1
    /\ pc' = "for_epoch"
    /\ UNCHANGED <<cfgvars, batches, epochs, path, train_loader, test_loader,
                   inner_metrics, train_metrics, test_metrics, df, it, bi, si,
                   learner, learner_mode, inner_optim, info, live, flearner,
                   diffopt, drawn, losses, outer, saved, trace, nbatch>>

\* lines 172-175: every list is wrapped into a one-row cell; the inner
\* optimizer's gradients are zeroed (the learner's weights keep their values)
Teardown ==
    /\ pc = "for_epoch"
    /\ epoch >= epochs
    /\ info' = [key \in DOMAIN info |-> <<info[key]>>]
    /\ pc' = "save"
    /\ UNCHANGED <<cfgvars, batches, epochs, path, train_loader, test_loader,
                   inner_metrics, train_metrics, test_metrics, df, it, epoch, bi,
                   si, learner, learner_mode, inner_optim, live, flearner, diffopt,
                   drawn, losses, outer, saved, trace, nbatch>>

\* lines 176-177: torch.save writes (or overwrites) the file at the path
Save ==
    /\ pc = "save"
    /\ LET p == CheckpointPath(path, it)
       IN  /\ info' = info @@ ("Path" :> p)
           /\ saved' = {c \in saved : c.path # p} \cup
                        {[path |-> p, model |-> learner, optimizer |-> inner_optim]}
    /\ pc' = "append"
    /\ UNCHANGED <<cfgvars, batches, epochs, path, train_loader, test_loader,
                   inner_metrics, train_metrics, test_metrics, df, it, epoch, bi,
                   si, learner, learner_mode, inner_optim, live, flearner, diffopt,
                   drawn, losses, outer, trace, nbatch>>

\* lines 178-180: pandas builds a one-row frame from the one-element lists and
\* the scalar Path; _imshow on every plot_steps-th learner changes nothing
AppendRow ==
    /\ pc = "append"
    /\ DOMAIN info # {"Path"}
    /\ df' = Append(df, info)
    /\ pc' = "for_learner"
    /\ UNCHANGED <<cfgvars, batches, epochs, path, train_loader, test_loader,
                   inner_metrics, train_metrics, test_metrics, it, epoch, bi, si,
                   learner, learner_mode, inner_optim, info, live, flearner,
                   diffopt, drawn, losses, outer, saved, trace, nbatch>>

\* line 178 with no batch-of-steps recorded: _info holds the scalar Path
\* alone and pandas.DataFrame raises ValueError
AppendRowRaises ==
    /\ pc = "append"
    /\ DOMAIN info = {"Path"}
    /\ pc' = "raised"
    /\ UNCHANGED <<cfgvars, batches, epochs, path, train_loader, test_loader,
                   inner_metrics, train_metrics, test_metrics, df, it, epoch, bi,
                   si, learner, learner_mode, inner_optim, info, live, flearner,
                   diffopt, drawn, losses, outer, saved, trace, nbatch>>

\* lines 182-190: every learner is done and the table is returned
Finish ==
    /\ pc = "for_learner"
    /\ it + 1 >= gtn.learnerlist
    /\ pc' = "done"
    /\ UNCHANGED <<cfgvars, batches, epochs, path, train_loader, test_loader,
                   inner_metrics, train_metrics, test_metrics, df, it, epoch, bi,
                   si, learner, learner_mode, inner_optim, info, live, flearner,
                   diffopt, drawn, losses, outer, saved, trace, nbatch>>

Next ==
    \/ TrainStart
    \/ LearnerSetup
    \/ EpochBegin
    \/ ZeroGrad
    \/ DrawData
    \/ CtxEnter
    \/ InnerStep
    \/ OuterLoss
    \/ Backward
    \/ OuterStep
    \/ SyncLearner
    \/ SyncOptim
    \/ CtxExit
    \/ TestEval
    \/ Record
    \/ RecordRaises
    \/ Reset
    \/ EpochEnd
    \/ Teardown
    \/ Save
    \/ AppendRow
    \/ AppendRowRaises
    \/ Finish

Spec == Init /\ [][Next]_vars

(***************************************************************************)
(* Properties of train.                                                    *)
(***************************************************************************)
N == gtn.inner_loop_iterations
B == gtn.batch_size
P == gtn.learnerlist

Ceil(a, b) == (a + b - 1) \div b

RECURSIVE Flatten(_)
Flatten(ss) == IF ss = <<>> THEN <<>> ELSE Head(ss) \o Flatten(Tail(ss))

IsPrefix(s, t) == Len(s) <= Len(t) /\ SubSeq(t, 1, Len(s)) = s

\* positions between the two state copies of a batch-of-steps and its end
SyncedPcs == {"ctx_exit", "test", "record", "reset"}

\* positions of the same learner's run after at least one batch-of-steps and
\* before the next functional context is populated
BetweenBatches ==
    \/ pc \in {"for_batch", "draw", "ctx_enter"} /\ epoch * Len(batches) + bi > 0
    \/ pc = "for_epoch" /\ epoch > 0 /\ Len(batches) > 0

\* C1: once a batch-of-steps has run both state copies, and until the next
\* batch-of-steps of the learner enters its functional context, the
\* persistent learner's parameters are the functional learner's final
\* parameters (the parameters before the batch followed by the chunk's
\* steps) and the persistent inner optimizer's state is the functional
\* optimizer's final state.
C1_StateSync ==
    /\ (pc \in SyncedPcs \/ BetweenBatches) =>
          /\ learner = flearner
          /\ inner_optim = diffopt_state_dict(diffopt)
    /\ pc \in SyncedPcs =>
          /\ Len(learner.steps) >= Len(Batchset)
          /\ SubSeq(learner.steps, Len(learner.steps) - Len(Batchset) + 1,
                    Len(learner.steps)) = Batchset
          /\ inner_optim.steps = Len(learner.steps)

C1_Witness ==
    /\ pc = "reset"
    /\ nbatch >= 2
    /\ Len(Batchset) >= 2
    /\ learner = flearner
    /\ inner_optim.steps = diffopt.steps
    /\ inner_optim.steps >= 3

\* C2 as stated: within a learner's run the persistent learner's parameters
\* and the persistent inner optimizer's state change only at the state
\* copy-back, the copy-back runs with the functional context closed, and at
\* most one functional snapshot is live.
C2_CopyBackAfterClose ==
    [][ /\ live' <= 1
        /\ (it' = it /\ (learner' # learner \/ inner_optim' # inner_optim)) =>
              /\ pc \in {"sync_learner", "sync_optim"}
              /\ live = 0 ]_vars

\* C2 amended: within a learner's run the persistent learner's parameters and
\* the persistent inner optimizer's state change only at the two state
\* copies, which run after the chunk's last inner step and the outer
\* optimizer's step while the batch's functional context is still open; the
\* inner steps, the backward pass and the outer step leave them alone; at
\* most one functional snapshot is live, and one is live exactly from the
\* entry of the context to its exit.
C2_CopyBackOnly ==
    /\ [](live = IF pc \in {"inner", "backward", "outer_step", "sync_learner",
                            "sync_optim", "ctx_exit"} THEN 1 ELSE 0)
    /\ [][ /\ pc \in {"inner", "backward", "outer_step"} =>
                (learner' = learner /\ inner_optim' = inner_optim)
           /\ (it' = it /\ (learner' # learner \/ inner_optim' # inner_optim)) =>
                /\ pc \in {"sync_learner", "sync_optim"}
                /\ live = 1
                /\ si = Len(Batchset)
                /\ trace[Len(trace)].ph \in {"outer_step", "sync_learner"} ]_vars

C2_Witness ==
    /\ pc = "ctx_exit"
    /\ live = 1
    /\ nbatch >= 2
    /\ learner = flearner
    /\ Len(learner.steps) >= 2
    /\ inner_optim.steps = Len(learner.steps)

\* C3: the batches-of-steps computed at the start of train are the range
\* 0..N-1 cut into consecutive chunks: their concatenation is the ascending
\* range (every step index exactly once), there are ceil(N/B) of them, every
\* chunk but the last has B steps and the last has between 1 and B.
C3_ChunksPartition ==
    pc # "idle" =>
        /\ Flatten(batches) = [i \in 1..N |-> i - 1]
        /\ Len(batches) = Ceil(N, B)
        /\ \A c \in 1..Len(batches) :
              /\ c < Len(batches) => Len(batches[c]) = B
              /\ Len(batches[c]) >= 1 /\ Len(batches[c]) <= B
              /\ \A j \in 1..Len(batches[c]) : batches[c][j] = (c - 1) * B + (j - 1)

C3_Witness ==
    /\ pc # "idle"
    /\ Len(batches) >= 2
    /\ Len(batches[Len(batches)]) < B
    /\ Len(batches[1]) = B

\* the history lists of a learner
HistoryKeys ==
    {"InnerAccuracy", "InnerLoss", "TrainAccuracy", "TrainLoss",
     "TestAccuracy", "TestLoss"}

\* every list has one entry per batch-of-steps of learner i, in execution
\* order, and no entry of another learner
HistoryOK(lists, i) ==
    \A key \in HistoryKeys :
        /\ Len(lists[key]) = epochs * Ceil(N, B)
        /\ \A j \in 1..Len(lists[key]) :
              lists[key][j].it = i /\ lists[key][j].batch = j - 1

\* C4: with N >= 1, a learner whose epochs are over has run exactly
\* E * ceil(N/B) batches-of-steps, and each of its history lists (before the
\* teardown, and in its row of the table) has exactly that many entries, one
\* per batch-of-steps in execution order, all of this learner.
C4_HistoryLength ==
    N >= 1 =>
        /\ (pc = "for_epoch" /\ epoch >= epochs) =>
              /\ nbatch = (it + 1) * epochs * Ceil(N, B)
              /\ DOMAIN info = HistoryKeys
              /\ HistoryOK(info, it)
        /\ \A r \in 1..Len(df) :
              /\ DOMAIN df[r] = HistoryKeys \cup {"Path"}
              /\ \A key \in HistoryKeys : Len(df[r][key]) = 1
              /\ HistoryOK([key \in HistoryKeys |-> df[r][key][1]], r - 1)

C4_Witness ==
    /\ pc = "done"
    /\ Len(df) = 2
    /\ epochs = 2
    /\ N = 3 /\ B = 2
    /\ Len(df[2]["TestLoss"][1]) = 4
    /\ nbatch = 8

\* C5: a train call that completes returns one row per learner; row i is
\* learner i's and its Path is {path}/{i}.pth; the Paths are pairwise
\* distinct; at every moment each row's checkpoint is already persisted at
\* its Path with learner i's state, and so is the checkpoint of every learner
\* before the one being trained.
C5_RowsAndPaths ==
    /\ pc = "done" => Len(df) = P
    /\ \A r \in 1..Len(df) :
          /\ df[r]["Path"] = path \o "/" \o Str(r - 1) \o ".pth"
          /\ df[r]["TestLoss"][1][1].it = r - 1
          /\ \E c \in saved : c.path = df[r]["Path"] /\ c.model.proto = r - 1
          /\ \A q \in 1..Len(df) : q # r => df[q]["Path"] # df[r]["Path"]
    /\ \A i \in 0..(it - 1) :
          \E c \in saved : c.path = path \o "/" \o Str(i) \o ".pth" /\ c.model.proto = i
    /\ Len(df) <= Cardinality(saved)

C5_Witness ==
    /\ pc = "done"
    /\ Len(df) = 2
    /\ df[1]["Path"] = "./gtn/0.pth"
    /\ df[2]["Path"] = "./gtn/1.pth"
    /\ Cardinality(saved) = 2

\* the phases of one batch-of-steps over a chunk, in order
ExpectedTrace(chunk) ==
    <<Phase("zero_grad", -1), Phase("draw", -1), Phase("enter", -1)>>
    \o [j \in 1..Len(chunk) |-> Phase("inner", chunk[j])]
    \o <<Phase("outer_loss", -1), Phase("backward", -1), Phase("outer_step", -1),
         Phase("sync_learner", -1), Phase("sync_optim", -1), Phase("exit", -1),
         Phase("test", -1), Phase("record", -1)>>

InBatch ==
    pc \in {"draw", "ctx_enter", "inner", "backward", "outer_step", "sync_learner",
            "sync_optim", "ctx_exit", "test", "record", "reset"}

\* C6: the phases a batch-of-steps has gone through are always an initial
\* part of: zero the outer gradients, (draw, enter the context,) the inner
\* steps of the chunk in ascending order, outer loss, backward, outer step,
\* copy the learner, copy the optimizer, (leave the context,) test
\* evaluation, record; when the batch is recorded they are all of it, each
\* once, and the test evaluation saw the parameters the copy-back produced;
\* a batch-of-steps starts only when the one before it has been recorded.
C6_PhaseOrder ==
    /\ [](InBatch =>
            /\ IsPrefix(trace, ExpectedTrace(Batchset))
            /\ \A j \in 1..(Len(Batchset) - 1) : Batchset[j] < Batchset[j + 1]
            /\ pc = "reset" =>
                  /\ trace = ExpectedTrace(Batchset)
                  /\ losses.test.params = flearner.steps
                  /\ losses.test.params = losses.train.params)
    /\ [][ trace' = <<Phase("zero_grad", -1)>> =>
              (trace = <<>> \/ trace[Len(trace)] = Phase("record", -1)) ]_vars

C6_Witness ==
    /\ pc = "reset"
    /\ nbatch >= 2
    /\ Len(Batchset) >= 2
    /\ trace = ExpectedTrace(Batchset)
    /\ losses.test.params = learner.steps

\* the chunk of the batch-of-steps an entry was recorded in
ChunkOf(entry) == batches[(entry.batch % Len(batches)) + 1]

Zero(metric) == metric.updates = 0

\* C7: outside a batch-of-steps (so at the start of every one, of every
\* learner) the three accumulators hold zero updates; inside one, the inner
\* accumulator holds one update per inner step run so far and the train and
\* test accumulators the one update of this batch, if made; every recorded
\* metric value reflects len(chunk) inner updates, one train update and one
\* test update.
C7_MetricsFresh ==
    /\ pc \in {"idle", "for_learner", "for_epoch", "for_batch", "draw", "ctx_enter",
               "save", "append", "done"} =>
          Zero(inner_metrics) /\ Zero(train_metrics) /\ Zero(test_metrics)
    /\ pc \in {"inner", "backward", "outer_step", "sync_learner", "sync_optim",
               "ctx_exit", "test", "record", "reset"} =>
          /\ inner_metrics.updates = si
          /\ train_metrics.updates = IF pc = "inner" THEN 0 ELSE 1
          /\ test_metrics.updates = IF pc \in {"record", "reset"} THEN 1 ELSE 0
    /\ \A r \in 1..Len(df) :
          /\ \A j \in 1..Len(df[r]["InnerAccuracy"][1]) :
                df[r]["InnerAccuracy"][1][j].value =
                    Len(ChunkOf(df[r]["InnerAccuracy"][1][j]))
          /\ \A j \in 1..Len(df[r]["TrainAccuracy"][1]) :
                df[r]["TrainAccuracy"][1][j].value = 1
          /\ \A j \in 1..Len(df[r]["TestAccuracy"][1]) :
                df[r]["TestAccuracy"][1][j].value = 1

C7_Witness ==
    /\ pc = "for_batch"
    /\ it = 1 /\ epoch = 0 /\ bi = 0
    /\ Len(df) = 1
    /\ Len(df[1]["InnerAccuracy"][1]) >= 2
    /\ df[1]["InnerAccuracy"][1][1].value = 2
    /\ df[1]["InnerAccuracy"][1][2].value = 1
    /\ Zero(inner_metrics) /\ Zero(train_metrics) /\ Zero(test_metrics)

\* number of pairs drawn from each outer source so far
Draws == IF pc = "draw" THEN nbatch - 1 ELSE nbatch

\* C9: each batch-of-steps draws one pair from each outer source: after k
\* batches have drawn, each iterator stands at k mod its length; the k-th
\* batch-of-steps of the call (from 0, over all learners and epochs) holds
\* element k mod L_train of the training source and k mod L_test of the
\* validation source, and these are what its losses are recorded from.
C9_CyclicDraws ==
    pc \notin {"idle"} =>
        /\ train_loader.pos = Draws % Len(train_loader.items)
        /\ test_loader.pos = Draws % Len(test_loader.items)
        /\ (InBatch /\ pc # "draw") =>
              /\ drawn.train = train_loader.items[((nbatch - 1) % Len(train_loader.items)) + 1]
              /\ drawn.test = test_loader.items[((nbatch - 1) % Len(test_loader.items)) + 1]
        /\ pc = "reset" =>
              /\ losses.train.src = (nbatch - 1) % Len(train_loader.items)
              /\ losses.test.src = (nbatch - 1) % Len(test_loader.items)

C9_Witness ==
    /\ pc = "reset"
    /\ it = 1
    /\ Len(train_loader.items) = 2
    /\ Len(test_loader.items) = 1
    /\ nbatch = 4
    /\ drawn = [train |-> 1, test |-> 0]

(***************************************************************************)
(* Properties of the configuration calls (SpecConfig).                     *)
(***************************************************************************)
TeacherVariant == gtn.variant \in {"CurriculumTeacherGTN", "RandomTeacherGTN"}

\* C8 as stated: a teacher variant's get_innerloop_data returns the labels
\* arange(inner_batch_size) mod num_classes, and they take num_classes
\* distinct values.
C8_LabelCardinality ==
    (TeacherVariant /\ sample # <<>>) =>
        /\ sample[1].labels = [i \in 1..gtn.inner_batch_size |-> (i - 1) % gtn.num_classes]
        /\ Cardinality(Range(sample[1].labels)) = gtn.num_classes

\* C8 amended: a teacher variant's get_innerloop_data returns, for every
\* step, the labels arange(inner_batch_size) mod num_classes; they take
\* min(inner_batch_size, num_classes) distinct values, the values
\* 0..min(inner_batch_size, num_classes)-1, which are num_classes values
\* exactly when inner_batch_size >= num_classes.
C8_LabelsCycle ==
    (TeacherVariant /\ sample # <<>>) =>
        /\ sample[1].labels = [i \in 1..gtn.inner_batch_size |-> (i - 1) % gtn.num_classes]
        /\ Range(sample[1].labels) = 0..(Min(gtn.inner_batch_size, gtn.num_classes) - 1)
        /\ Cardinality(Range(sample[1].labels)) = Min(gtn.inner_batch_size, gtn.num_classes)
        /\ (Cardinality(Range(sample[1].labels)) = gtn.num_classes)
              <=> (gtn.inner_batch_size >= gtn.num_classes)

C8_Witness ==
    /\ TeacherVariant
    /\ sample # <<>>
    /\ gtn.num_classes = 3
    /\ sample[1].labels = <<0, 1, 2, 0>>
    /\ sample[1].data.step \in {-1, 1}

NoDuplicates(s) == \A i, j \in DOMAIN s : s[i] = s[j] => i = j

\* C10: when train starts, the outer optimizer owns exactly the tensors
\* get_innerloop_data reads together with the override values now passed to
\* the inner-loop context, each once.
C10_OptimizerOwnsCurrent ==
    running =>
        /\ Range(gtn.outer_optim) = InnerloopReads(gtn) \cup Range(gtn.override)
        /\ NoDuplicates(gtn.outer_optim)

=============================================================================
